---- MODULE Spec2Model ----
(***************************************************************************)
(* Model of src/hooks.py: the GitHubIssueReporter reporter and the         *)
(* BetweenLinesFilter filter of the webchanges hooks.                      *)
(*                                                                         *)
(* Strings are sequences of one-character strings.  Python's None is the   *)
(* value None below; a dict is a function whose DOMAIN is its key set, so  *)
(* d.get(k) is Get(d, k).                                                  *)
(***************************************************************************)
EXTENDS Integers, Sequences, FiniteSets, TLC

VARIABLES
    \* BetweenLinesFilter.filter: one invocation
    data, subfilter, mime_type, filtered_lines, fresult,
    \* GitHubIssueReporter._format_text: one invocation, its strings held by
    \* their lengths
    tformat, tcontent_len, ttruncated_len, tbody_len,
    \* GitHubIssueReporter.submit: one invocation
    config, lines, joined, pc, requests, log, response, returned, error

fvars == <<data, subfilter, mime_type, filtered_lines, fresult>>
tvars == <<tformat, tcontent_len, ttruncated_len, tbody_len>>
rvars == <<config, lines, joined, pc, requests, log, response, returned, error>>
vars == <<fvars, tvars, rvars>>

-----------------------------------------------------------------------------
(* Python values *)

None == <<"<None>">>

Truthy(v) == v # None /\ v # <<>>

Get(d, k) == IF k \in DOMAIN d THEN d[k] ELSE None

GetDefault(d, k, default) == IF k \in DOMAIN d THEN d[k] ELSE default

RECURSIVE Join(_, _)
Join(sep, ls) ==
    IF ls = <<>> THEN <<>>
    ELSE IF Len(ls) = 1 THEN ls[1]
    ELSE ls[1] \o sep \o Join(sep, Tail(ls))

NL == <<"\n">>

\* s[:n] of Python, for any integer n (a negative n counts from the end)
SliceTo(s, n) ==
    IF n >= 0 THEN SubSeq(s, 1, IF n < Len(s) THEN n ELSE Len(s))
    ELSE SubSeq(s, 1, IF Len(s) + n > 0 THEN Len(s) + n ELSE 0)

Contains(s, t) ==
    \E i \in 1..(Len(s) - Len(t) + 1) : SubSeq(s, i, i + Len(t) - 1) = t

-----------------------------------------------------------------------------
(* BetweenLinesFilter *)

MaxFilterLines == 6

\* line contents tried: a plain line, a line holding B, a line holding E
LineContents == {<<"x">>, <<"x", "B">>, <<"E">>}

Terminators == {<<"\n">>, <<"\r", "\n">>, <<"\r">>}

RECURSIVE Concat(_)
Concat(ss) == IF ss = <<>> THEN <<>> ELSE ss[1] \o Concat(Tail(ss))

\* the texts tried: up to MaxFilterLines lines ended by one terminator, the
\* last line with or without it
Texts ==
    {<<>>} \cup
    UNION {{Concat([i \in 1..k |-> IF i = k /\ ~last THEN cs[i] ELSE cs[i] \o term]) :
              cs \in [1..k -> LineContents], term \in Terminators, last \in BOOLEAN} :
           k \in 1..MaxFilterLines}

\* the patterns tried: "" , the literals B and E, and "(" which re.compile rejects
Patterns == {<<>>, <<"B">>, <<"E">>, <<"(">>}

Subfilters == UNION {[keys -> Patterns] : keys \in SUBSET {"start", "end"}}

MimeTypes == {"text/plain"}

\* re.compile fails on an unbalanced parenthesis
InvalidPattern(p) == \E i \in 1..Len(p) : p[i] = "("

\* re.search(pattern, line) for a valid pattern of literal characters:
\* the pattern may match anywhere within the line
re_search(pattern, line) ==
    pattern = <<>> \/ Contains(line, pattern)

\* the line boundary that starts at s[i]: its length, 0 if none starts there
BoundaryAt(s, i) ==
    IF s[i] = "\n" THEN 1
    ELSE IF s[i] = "\r" THEN (IF i < Len(s) /\ s[i + 1] = "\n" THEN 2 ELSE 1)
    ELSE 0

\* str.splitlines(keepends=True)
RECURSIVE splitlines(_)
splitlines(s) ==
    IF s = <<>> THEN <<>>
    ELSE LET ends == {i \in 1..Len(s) : BoundaryAt(s, i) > 0}
         IN IF ends = {} THEN <<s>>
            ELSE LET b == CHOOSE i \in ends : \A j \in ends : i <= j
                     e == b + BoundaryAt(s, b) - 1
                 IN <<SubSeq(s, 1, e)>> \o splitlines(SubSeq(s, e + 1, Len(s)))

\* the for loop of get_lines_between from line i on: the lines yielded, and
\* whether re.search raised re.error
RECURSIVE lines_loop(_, _, _, _, _)
lines_loop(ls, start_pattern, end_pattern, i, started) ==
    IF i > Len(ls) THEN [raised |-> FALSE, yielded |-> <<>>]
    ELSE IF ~started THEN
        IF Truthy(start_pattern) THEN
            IF InvalidPattern(start_pattern)
            THEN [raised |-> TRUE, yielded |-> <<>>]
            ELSE lines_loop(ls, start_pattern, end_pattern, i + 1,
                            re_search(start_pattern, ls[i]))
        ELSE lines_loop(ls, start_pattern, end_pattern, i + 1, FALSE)
    ELSE IF Truthy(end_pattern) /\ InvalidPattern(end_pattern)
        THEN [raised |-> TRUE, yielded |-> <<>>]
    ELSE IF Truthy(end_pattern) /\ re_search(end_pattern, ls[i])
        THEN [raised |-> FALSE, yielded |-> <<>>]
    ELSE LET rest == lines_loop(ls, start_pattern, end_pattern, i + 1, TRUE)
         IN [raised |-> rest.raised, yielded |-> <<ls[i]>> \o rest.yielded]

get_lines_between_started(ls, start_pattern, end_pattern) ==
    lines_loop(ls, start_pattern, end_pattern, 1, TRUE)

get_lines_between(ls, start_pattern, end_pattern) ==
    lines_loop(ls, start_pattern, end_pattern, 1, FALSE)

FilterInit ==
    /\ data \in Texts
    /\ subfilter \in Subfilters
    /\ mime_type \in MimeTypes
    /\ filtered_lines = <<>>
    /\ fresult = [state |-> "pending"]

\* BetweenLinesFilter.filter(data, mime_type, subfilter)
Filter ==
    /\ fresult.state = "pending"
    /\ LET start_pattern == Get(subfilter, "start")
           end_pattern == Get(subfilter, "end")
           gen == get_lines_between(splitlines(data), start_pattern, end_pattern)
       IN /\ filtered_lines' = gen.yielded
          /\ fresult' = IF gen.raised
                        THEN [state |-> "raised", error |-> "re.error"]
                        ELSE [state |-> "returned",
                              text |-> Join(NL, gen.yielded),
                              mime_type |-> mime_type]
    /\ UNCHANGED <<data, subfilter, mime_type>>

-----------------------------------------------------------------------------
(* GitHubIssueReporter._format_title and _format_text *)

_CONTENT_LIMIT == 65536

Placeholder(name) == <<"{">> \o name \o <<"}">>

ContentField == <<"c", "o", "n", "t", "e", "n", "t">>

DtField == <<"d", "t">>

\* template.format(name=value) for a template whose only braces are the
\* replacement field {name}: every occurrence of the field is replaced
RECURSIVE str_format(_, _, _)
str_format(template, name, value) ==
    LET ph == Placeholder(name)
        at == {i \in 1..(Len(template) - Len(ph) + 1) :
                  template[i] = "{" /\ SubSeq(template, i, i + Len(ph) - 1) = ph}
    IN IF at = {} THEN template
       ELSE LET i == CHOOSE k \in at : \A j \in at : k <= j
            IN SubSeq(template, 1, i - 1) \o value
               \o str_format(SubSeq(template, i + Len(ph), Len(template)), name, value)

\* datetime.now(tz=timezone.utc), as the fields strftime reads
Now == [Y |-> <<"2", "0", "2", "6">>, m |-> <<"1", "1">>, d |-> <<"0", "3">>,
        H |-> <<"1", "7">>, M |-> <<"2", "2">>, S |-> <<"0", "9">>]

\* now.strftime(format_dt): each directive %Y %m %d %H %M %S becomes its field
RECURSIVE strftime(_, _)
strftime(now, format) ==
    IF format = <<>> THEN <<>>
    ELSE IF Len(format) >= 2 /\ format[1] = "%" /\ format[2] \in DOMAIN now
         THEN now[format[2]] \o strftime(now, SubSeq(format, 3, Len(format)))
         ELSE <<format[1]>> \o strftime(now, Tail(format))

DefaultFormatDt ==
    <<"%", "Y", "-", "%", "m", "-", "%", "d", " ", "%", "H", ":", "%", "M", ":", "%", "S">>

DefaultTitle ==
    <<"W", "e", "b", "C", "h", "a", "n", "g", "e", "s", " ", "r", "e", "p", "o", "r", "t">>

_format_title(cfg, now) ==
    LET format_dt == GetDefault(cfg, "format_dt", DefaultFormatDt)
        title == Get(cfg, "title")
    IN IF ~Truthy(title) THEN DefaultTitle
       ELSE str_format(title, DtField, strftime(now, format_dt))

\* the content _format_text substitutes into format_content (or returns as
\* the body when there is no format_content): lines 59 to 61
truncated_content(cfg, content) ==
    LET format_content == Get(cfg, "format_content")
        cut == SliceTo(content, _CONTENT_LIMIT)
    IN IF Truthy(format_content)
       THEN SliceTo(cut, _CONTENT_LIMIT - Len(format_content) - 1)
       ELSE cut

_format_text(cfg, content) ==
    LET format_content == Get(cfg, "format_content")
    IN IF Truthy(format_content)
       THEN str_format(format_content, ContentField, truncated_content(cfg, content))
       ELSE truncated_content(cfg, content)

\* lengths tried: 0..MaxSmallLen and _CONTENT_LIMIT - Near - 1 .. _CONTENT_LIMIT + Near
MaxSmallLen == 3

Near == 1

Lengths == (0..MaxSmallLen) \cup ((_CONTENT_LIMIT - Near - 1)..(_CONTENT_LIMIT + Near))

Digits == <<"0", "1", "2", "3", "4", "5", "6", "7", "8", "9">>

\* the report content of n characters
ContentOf(n) == [i \in 1..n |-> Digits[(i % 10) + 1]]

\* the format_content of n characters: the {content} field (when n >= 9)
\* followed by literal text
TemplateOf(n) ==
    IF n < 9 THEN [i \in 1..n |-> ">"]
    ELSE [i \in 1..n |-> IF i <= 9 THEN Placeholder(ContentField)[i] ELSE ">"]

\* format_content is absent from the configuration, None, or a template
Formats ==
    {[kind |-> "absent", len |-> 0], [kind |-> "None", len |-> 0]}
    \cup {[kind |-> "template", len |-> n] : n \in Lengths \cup {9, 10}}

ConfigOf(format) ==
    IF format.kind = "absent" THEN [enabled |-> TRUE]
    ELSE IF format.kind = "None" THEN [enabled |-> TRUE, format_content |-> None]
    ELSE [enabled |-> TRUE, format_content |-> TemplateOf(format.len)]

\* the value of a length before the call
NotCalled == 0 - 1

TextInit ==
    /\ tformat \in Formats
    /\ tcontent_len \in Lengths
    /\ ttruncated_len = NotCalled
    /\ tbody_len = NotCalled

\* one call of _format_text(content)
FormatText ==
    /\ tbody_len = NotCalled
    /\ LET cfg == ConfigOf(tformat)
           content == ContentOf(tcontent_len)
       IN /\ ttruncated_len' = Len(truncated_content(cfg, content))
          /\ tbody_len' = Len(_format_text(cfg, content))
    /\ UNCHANGED <<tformat, tcontent_len>>

-----------------------------------------------------------------------------
(* JSON texts: sequences of tokens; a parsed object is the sequence of its *)
(* <<key, value>> members                                                  *)

JsonStrings == {"\"message\"", "\"bad\"", "\"status\"", "\"422\""}

JsonSpace == {" ", "\n", "  "}

\* json.loads(text) for texts holding one flat object of string members:
\* ok is FALSE where json.loads raises JSONDecodeError
json_loads(text) ==
    LET toks == SelectSeq(text, LAMBDA t : t \notin JsonSpace)
        n == Len(toks)
        inner == SubSeq(toks, 2, n - 1)
        wellformed ==
            /\ n >= 2 /\ toks[1] = "{" /\ toks[n] = "}"
            /\ inner = <<>> \/ Len(inner) % 4 = 3
            /\ \A j \in 1..Len(inner) :
                 CASE j % 4 = 1 -> inner[j] \in JsonStrings
                   [] j % 4 = 2 -> inner[j] = ":"
                   [] j % 4 = 3 -> inner[j] \in JsonStrings
                   [] OTHER -> inner[j] = ","
    IN IF wellformed
       THEN [ok |-> TRUE,
             value |-> [k \in 1..((Len(inner) + 1) \div 4) |->
                           <<inner[4 * k - 3], inner[4 * k - 1]>>]]
       ELSE [ok |-> FALSE, value |-> <<>>]

RECURSIVE dumps_members(_)
dumps_members(obj) ==
    IF obj = <<>> THEN <<>>
    ELSE <<"\n", "  ", obj[1][1], ":", " ", obj[1][2]>>
         \o (IF Len(obj) > 1 THEN <<",">> ELSE <<>>)
         \o dumps_members(Tail(obj))

\* json.dumps(obj, indent=2)
json_dumps_indent2(obj) ==
    IF obj = <<>> THEN <<"{", "}">>
    ELSE <<"{">> \o dumps_members(obj) \o <<"\n", "}">>

-----------------------------------------------------------------------------
(* GitHubIssueReporter.submit *)

CREATED == 201

MaxLines == 2

LineTexts == {<<>>, <<"a">>}

\* what super().submit can yield: up to MaxLines report lines
LineSeqs == UNION {[1..k -> LineTexts] : k \in 0..MaxLines}

\* super().submit is annotated Iterator[str]; the base class is not part of
\* this repository, so its result is either a one-shot iterator (a
\* generator) or a re-iterable list
LineKinds == {"iterator", "list"}

Opt(key, values) == {[k \in {} |-> None]} \cup {(key :> v) : v \in values}

Configs ==
    {[enabled |-> TRUE, token |-> "t0k", owner |-> "octo", repo |-> "site"]
       @@ t @@ f @@ c @@ l @@ a @@ ty @@ m :
       t \in Opt("title", {<<"R", " ", "{", "d", "t", "}">>}),
       f \in Opt("format_dt", {<<"%", "Y">>}),
       c \in Opt("format_content", {<<"#">> \o Placeholder(ContentField)}),
       l \in Opt("labels", {<<"bug">>}),
       a \in Opt("assignees", {<<>>, <<"alice">>}),
       ty \in Opt("type", {None, <<"B", "u", "g">>}),
       m \in Opt("milestone", {<<>>, <<"1">>})}

Statuses == {200, CREATED, 404}

ResponseTexts ==
    { <<"{", "\"message\"", ":", "\"bad\"", "}">>,
      <<"{", "\n", "  ", "\"message\"", ":", " ", "\"bad\"", ",", "\n", "  ",
        "\"status\"", ":", " ", "\"422\"", "\n", "}">>,
      <<"{", "}">>,
      <<"<html>">>,
      <<"{", "\"message\"">>,
      <<>> }

NoResponse == [status_code |-> 0, text |-> <<>>]

NoError == [type |-> "none", message |-> <<>>]

NotReturned == [kind |-> "unset", items |-> <<>>, next |-> 1]

ReturnedNone == [kind |-> "None", items |-> <<>>, next |-> 1]

\* what a reader of the object obtains by iterating it
Iterate(obj) ==
    IF obj.kind = "iterator" THEN SubSeq(obj.items, obj.next, Len(obj.items))
    ELSE obj.items

\* the object after "\n".join(obj) has read it to its end
Exhaust(obj) ==
    IF obj.kind = "iterator" THEN [obj EXCEPT !.next = Len(obj.items) + 1]
    ELSE obj

api_url(cfg) == <<"https://api.github.com/repos/", cfg["owner"], "/", cfg["repo"], "/issues">>

request_headers(cfg) ==
    [Authorization |-> <<"Bearer ", cfg["token"]>>, Accept |-> "application/json"]

\* issue_data of _create_issue
issue_data_all_keys(cfg, title, body) ==
    LET base == [title |-> title, body |-> body, labels |-> GetDefault(cfg, "labels", <<>>)]
        a == IF "assignees" \in DOMAIN cfg
             THEN ("assignees" :> cfg["assignees"]) ELSE [k \in {} |-> None]
        t == IF "type" \in DOMAIN cfg
             THEN ("type" :> cfg["type"]) ELSE [k \in {} |-> None]
        m == IF "milestone" \in DOMAIN cfg
             THEN ("milestone" :> cfg["milestone"]) ELSE [k \in {} |-> None]
    IN base @@ a @@ t @@ m

issue_data(cfg, title, body) ==
    LET base == [title |-> title, body |-> body, labels |-> GetDefault(cfg, "labels", <<>>)]
        assignees == GetDefault(cfg, "assignees", <<>>)
        type_ == Get(cfg, "type")
        milestone == Get(cfg, "milestone")
        a == IF Truthy(assignees) THEN ("assignees" :> assignees) ELSE [k \in {} |-> None]
        t == IF Truthy(type_) THEN ("type" :> type_) ELSE [k \in {} |-> None]
        m == IF Truthy(milestone) THEN ("milestone" :> milestone) ELSE [k \in {} |-> None]
    IN base @@ a @@ t @@ m

\* the request _create_issue hands to post_client
create_issue_request(cfg, content) ==
    [url |-> api_url(cfg),
     headers |-> request_headers(cfg),
     json |-> issue_data(cfg, _format_title(cfg, Now), _format_text(cfg, content))]

is_created_any_2xx(status_code) == status_code \in 200..299

\* response.status_code == HTTPStatus.CREATED
is_created(status_code) == status_code = CREATED

always_posts(content) == TRUE

\* the negation of `if not content` in submit: the call goes on to _create_issue
has_content(content) == Truthy(content)

silent_before_post(content) ==
    IF ~Truthy(content) THEN <<"No content to submit.">> ELSE <<>>

\* the logger.info call submit makes before it returns or creates the issue
submit_log(content) ==
    IF ~Truthy(content) THEN <<"No content to submit.">>
    ELSE <<"Submitting issue to GitHub...">>

ReporterInit ==
    /\ config \in Configs
    /\ lines = NotReturned
    /\ joined = <<>>
    /\ pc = "idle"
    /\ requests = <<>>
    /\ log = <<>>
    /\ response = NoResponse
    /\ returned = NotReturned
    /\ error = NoError

\* submit(), up to its return on empty content or to the blocking post_client call
Submit(items, kind) ==
    /\ pc # "posting"
    /\ LET obj == [kind |-> kind, items |-> items, next |-> 1]
           content == Join(NL, Iterate(obj))
       IN /\ lines' = Exhaust(obj)
          /\ joined' = content
          /\ log' = submit_log(content)
          /\ response' = NoResponse
          /\ error' = NoError
          /\ IF has_content(content)
             THEN /\ requests' = <<create_issue_request(config, content)>>
                  /\ returned' = NotReturned
                  /\ pc' = "posting"
             ELSE /\ requests' = <<>>
                  /\ returned' = ReturnedNone
                  /\ pc' = "returned"
    /\ UNCHANGED config

\* post_client returns a response: the rest of _create_issue and of submit
Respond(status_code, text) ==
    /\ pc = "posting"
    /\ response' = [status_code |-> status_code, text |-> text]
    /\ IF is_created(status_code)
       THEN /\ log' = Append(log, "Issue created successfully.")
            /\ returned' = lines
            /\ error' = NoError
            /\ pc' = "returned"
       ELSE LET json_object == json_loads(text)
            IN /\ log' = log
               /\ returned' = NotReturned
               /\ pc' = "raised"
               /\ error' = IF json_object.ok
                           THEN [type |-> "RuntimeError",
                                 message |-> <<"Failed to create issue: ">>
                                             \o json_dumps_indent2(json_object.value)]
                           ELSE [type |-> "JSONDecodeError", message |-> <<>>]
    /\ UNCHANGED <<config, lines, joined, requests>>

\* post_client raises (a network failure): nothing in the module catches it
PostRaises ==
    /\ pc = "posting"
    /\ pc' = "raised"
    /\ error' = [type |-> "RequestError", message |-> <<>>]
    /\ UNCHANGED <<config, lines, joined, requests, log, response, returned>>

-----------------------------------------------------------------------------
(* Specifications *)

FilterIdle ==
    /\ data = <<>>
    /\ subfilter = [k \in {} |-> None]
    /\ mime_type = "text/plain"
    /\ filtered_lines = <<>>
    /\ fresult = [state |-> "idle"]

TextIdle ==
    /\ tformat = [kind |-> "absent", len |-> 0]
    /\ tcontent_len = 0
    /\ ttruncated_len = NotCalled
    /\ tbody_len = NotCalled

ReporterIdle ==
    /\ config = [enabled |-> FALSE]
    /\ lines = NotReturned
    /\ joined = <<>>
    /\ pc = "off"
    /\ requests = <<>>
    /\ log = <<>>
    /\ response = NoResponse
    /\ returned = NotReturned
    /\ error = NoError

\* the reporter
Init == FilterIdle /\ TextIdle /\ ReporterInit

Next ==
    \/ \E items \in LineSeqs, kind \in LineKinds : Submit(items, kind) /\ UNCHANGED <<fvars, tvars>>
    \/ \E s \in Statuses, t \in ResponseTexts : Respond(s, t) /\ UNCHANGED <<fvars, tvars>>
    \/ PostRaises /\ UNCHANGED <<fvars, tvars>>

Spec == Init /\ [][Next]_vars

\* the filter
FilterSpecInit == FilterInit /\ TextIdle /\ ReporterIdle

FilterNext == Filter /\ UNCHANGED <<tvars, rvars>>

FilterSpec == FilterSpecInit /\ [][FilterNext]_vars

\* _format_text on contents and templates around the content limit
TextSpecInit == FilterIdle /\ TextInit /\ ReporterIdle

TextNext == FormatText /\ UNCHANGED <<fvars, rvars>>

TextSpec == TextSpecInit /\ [][TextNext]_vars

-----------------------------------------------------------------------------
(* Properties of BetweenLinesFilter, under FilterSpec *)

Min(S) == CHOOSE i \in S : \A j \in S : i <= j

\* the pattern is configured under the key and compiles
Configured(key) == key \in DOMAIN subfilter /\ ~InvalidPattern(subfilter[key])

\* the lines strictly after the first line matching start and strictly
\* before the first later line matching end
StrictlyBetween(ls, start_pattern, end_pattern) ==
    LET S == {i \in 1..Len(ls) : re_search(start_pattern, ls[i])}
    IN IF S = {} THEN <<>>
       ELSE LET E == {j \in (Min(S) + 1)..Len(ls) : re_search(end_pattern, ls[j])}
            IN SubSeq(ls, Min(S) + 1, IF E = {} THEN Len(ls) ELSE Min(E) - 1)

BetweenAsClaimed ==
    /\ fresult.state = "returned"
    /\ filtered_lines =
         StrictlyBetween(splitlines(data), subfilter["start"], subfilter["end"])
    /\ (\A i \in 1..Len(splitlines(data)) :
           ~re_search(subfilter["start"], splitlines(data)[i]))
         => fresult.text = <<>>

\* C1 as stated: for every configured start and end pattern the filter emits
\* exactly the lines strictly after the first line matching start and
\* strictly before the first later line matching end, and the empty string
\* if start never matches.
C1_EveryConfiguredPattern ==
    (fresult.state # "pending" /\ Configured("start") /\ Configured("end"))
        => BetweenAsClaimed

\* C1 amended: the same for every non-empty start and end pattern (an empty
\* pattern is treated as not configured).
C1_BetweenNonEmptyPatterns ==
    (/\ fresult.state # "pending"
     /\ Configured("start") /\ subfilter["start"] # <<>>
     /\ Configured("end") /\ subfilter["end"] # <<>>)
        => BetweenAsClaimed

\* an E line before the start marker, two lines emitted, a line after the
\* end marker discarded
C1_Witness ==
    /\ fresult.state = "returned"
    /\ data = <<"E", "\n", "x", "B", "\n", "x", "\n", "x", "\n", "E", "\n", "x">>
    /\ subfilter = [start |-> <<"B">>, end |-> <<"E">>]
    /\ filtered_lines = << <<"x", "\n">>, <<"x", "\n">> >>

\* C2: when no start pattern is configured the scan is started from the
\* first line, so every line before the first end-matching line is emitted
\* (all lines when no end pattern is configured either).
C2_NoStartEmitsFromFirstLine ==
    (/\ fresult.state # "pending"
     /\ "start" \notin DOMAIN subfilter
     /\ "end" \in DOMAIN subfilter => (Configured("end") /\ subfilter["end"] # <<>>))
        => /\ fresult.state = "returned"
           /\ LET ls == splitlines(data)
                  E == IF "end" \in DOMAIN subfilter
                       THEN {j \in 1..Len(ls) : re_search(subfilter["end"], ls[j])}
                       ELSE {}
              IN filtered_lines = SubSeq(ls, 1, IF E = {} THEN Len(ls) ELSE Min(E) - 1)

\* the line without its terminator
StripTerminator(line) ==
    SelectSeq(line, LAMBDA c : c \notin {"\n", "\r"})

\* C3: the returned text is the emitted lines with their terminators
\* discarded, joined by a single "\n", with no terminator after the last.
C3_TerminatorsDiscarded ==
    fresult.state = "returned"
        => fresult.text =
             Join(NL, [i \in 1..Len(filtered_lines) |-> StripTerminator(filtered_lines[i])])

\* C9: whenever the start or end pattern is an invalid regex the invocation
\* fails with a pattern-compilation error, for every input text.
C9_InvalidPatternAlwaysFails ==
    (/\ fresult.state # "pending"
     /\ \E key \in DOMAIN subfilter : InvalidPattern(subfilter[key]))
        => fresult.state = "raised"

-----------------------------------------------------------------------------
(* Properties of _format_text, under TextSpec *)

\* C4: for every report content and every configuration (format_content
\* absent, or a template of any length holding the {content} placeholder)
\* the issue body built by _format_text has at most _CONTENT_LIMIT
\* characters.
C4_BodyWithinLimit ==
    tbody_len # NotCalled => tbody_len <= _CONTENT_LIMIT

-----------------------------------------------------------------------------
(* Properties of GitHubIssueReporter.submit, under Spec *)

InCall == pc \in {"posting", "returned", "raised"}

Answered == response # NoResponse

OptionalKeys == {"assignees", "type", "milestone"}

\* C6: assignees, type and milestone are in the payload of the POST iff
\* configured with a truthy value, and then carry the configured value.
C6_OptionalKeys ==
    \A r \in 1..Len(requests) : \A k \in OptionalKeys :
        /\ k \in DOMAIN requests[r].json <=> (k \in DOMAIN config /\ Truthy(config[k]))
        /\ k \in DOMAIN requests[r].json => requests[r].json[k] = config[k]

C6_Witness ==
    /\ Len(requests) = 1
    /\ OptionalKeys \subseteq DOMAIN config
    /\ config["assignees"] = <<"alice">> /\ config["type"] = None /\ config["milestone"] = <<>>
    /\ DOMAIN requests[1].json = {"title", "body", "labels", "assignees"}

CompactBad == <<"{", "\"message\"", ":", "\"bad\"", "}">>

PrettyBad == <<"{", "\n", "  ", "\"message\"", ":", " ", "\"bad\"", "\n", "}">>

\* C7: a response with any status other than 201 and a valid JSON body makes
\* submit fail with a RuntimeError whose message contains the JSON
\* pretty-printed with a 2-space indent; submit returns nothing.
C7_FailureRaises ==
    (Answered /\ response.status_code # CREATED /\ json_loads(response.text).ok)
        => /\ pc = "raised"
           /\ returned = NotReturned
           /\ error.type = "RuntimeError"
           /\ Contains(error.message, json_dumps_indent2(json_loads(response.text).value))
           /\ response.text = CompactBad => Contains(error.message, PrettyBad)

C7_Witness ==
    /\ pc = "raised" /\ response = [status_code |-> 200, text |-> CompactBad]
    /\ error.type = "RuntimeError"

\* C8: on 201 submit returns the formatter's lines: the host that reads the
\* returned value obtains every line, in order.
C8_ReturnsAllLines ==
    (pc = "returned" /\ response.status_code = CREATED)
        => Iterate(returned) = lines.items

\* C10 as stated: a call that ends in an error after a non-201 response emits
\* no log line at any point.
C10_NoLogOnFailure ==
    (pc = "raised" /\ Answered) => log = <<>>

\* C10 amended: such a call emits exactly one log line, "Submitting issue to
\* GitHub...", before the POST, and none after the response.
C10_OnlySubmittingLogged ==
    /\ pc = "posting" => log = <<"Submitting issue to GitHub...">>
    /\ (pc = "raised" /\ Answered) => log = <<"Submitting issue to GitHub...">>

C10_Witness ==
    /\ pc = "raised" /\ response.status_code = 404
    /\ log = <<"Submitting issue to GitHub...">>

====
